---- MODULE Spec2Model ----
(***************************************************************************)
(* The training-loop state machine of examples/celeba/train.py: run(config) *)
(* as executed by each of the num_devices processes spawned by main.        *)
(* Calls into modules that are not part of the orchestrator (train_fns,     *)
(* utils) are modelled by their effect on the state dictionary, the         *)
(* checkpoint storage and the logs, with their outcome (return / raise)     *)
(* chosen nondeterministically.                                             *)
(***************************************************************************)
EXTENDS Integers, Sequences, FiniteSets, TLC

VARIABLES
    config,      \* the configuration dict passed to run (same for every process)
    loader_len,  \* number of batches one pass over the loader yields
    procs,       \* ordinals of the spawned processes that are followed
    pc,          \* pc[p]: position of process p inside run
    state_dict,  \* state_dict[p]: <<>> before line 111, <<record>> after
    left,        \* left[p]: batches the current pl_loader of p still yields
    modes,       \* modes[p]: train/eval flag of G, D and G_ema
    ckpt,        \* checkpoint storage: <<>> or <<saved state dict>>
    train_log,   \* the training log file: records appended by train_log.log
    events,      \* events[p]: what p has done in this run, in order
    evals,       \* evals[p]: the evaluation cycles of p, in order
    get_inception_metrics  \* the results the inception metrics may report

vars == <<config, loader_len, procs, pc, state_dict, left, modes, ckpt,
          train_log, events, evals, get_inception_metrics>>

-----------------------------------------------------------------------------
(* Bounds of the model *)
MaxDevices == 4
MaxInner == 3
MaxMult == 2
MaxBatches == 2

MaxEvals == 4
MaxProcs == 2
MaxRestarts == 1

(* state_dict literals of line 111-112 *)
InitBestIS == 0
InitBestFID == 999999

Min(a, b) == IF a < b THEN a ELSE b
Max(a, b) == IF a > b THEN a ELSE b

-----------------------------------------------------------------------------
(* Configurations *)

\* intervals tried for nd devices: its first multiples, and one value that
\* is no multiple of nd (when nd > 1)
Intervals(nd) == { k * nd : k \in 1..MaxMult } \cup { nd + 1 }

\* the switches of a configuration; sv is sv_log_interval in steps
Switches == [G_eval_mode : BOOLEAN, ema : BOOLEAN, sv : {0, 1}]
Plain == [G_eval_mode |-> TRUE, ema |-> TRUE, sv |-> 0]

Config(nd, ts, se, te, rs, wb, sw) ==
    [num_devices |-> nd, total_steps |-> ts, save_every |-> se,
     test_every |-> te, sv_log_interval |-> sw.sv * nd, resume |-> rs,
     G_eval_mode |-> sw.G_eval_mode, ema |-> sw.ema, which_best |-> wb]

\* (IS, FID) results the inception metrics may report
Metric(is, fid) == [IS |-> is, FID |-> fid]
OneMetric == { Metric(1, 9) }
SomeMetrics == { Metric(1, 10), Metric(2, 8), Metric(1, 9), Metric(3, 7) }

\* mutation: every process takes itself for the master
is_master_ordinal_All(p) == TRUE

\* xm.is_master_ordinal()
is_master_ordinal(p) == p = 0

\* mutation: the lower-is-better bookmark starts at 0
InitStateDict_ZeroFID == [itr |-> 0, best_IS |-> 0, best_FID |-> 0]

\* state_dict = {'itr': 0, ..., 'best_IS': 0, 'best_FID': 999999, ...}
InitStateDict ==
    [itr |-> 0, best_IS |-> InitBestIS, best_FID |-> InitBestFID]

\* mutations: the assertions are dropped, or only save_every is asserted
StartupAsserts_Off(c) == TRUE
StartupAsserts_SaveOnly(c) == c.save_every % c.num_devices = 0

\* The two startup assertions
StartupAsserts(c) ==
    /\ c.save_every % c.num_devices = 0
    /\ c.test_every % c.num_devices = 0

SD(p) == state_dict[p][1]
Itr(p) == SD(p).itr

Event(k, i) == [kind |-> k, itr |-> i]

TrainModes == [G |-> "train", D |-> "train", G_ema |-> "train"]

-----------------------------------------------------------------------------
(* Initial states: run has been entered by every followed process *)

StoredDicts(c) ==
    { [itr |-> i, best_IS |-> InitBestIS, best_FID |-> InitBestFID] :
        i \in {c.num_devices, c.total_steps, c.total_steps + c.num_devices} }

\* what every initial state shares: each followed process is entering run
Entering ==
    /\ pc = [p \in procs |-> "start"]
    /\ state_dict = [p \in procs |-> <<>>]
    /\ left = [p \in procs |-> 0]
    /\ modes = [p \in procs |-> TrainModes]
    /\ ckpt \in IF config.resume
                THEN {<<>>} \cup { <<d>> : d \in StoredDicts(config) }
                ELSE {<<>>}
    /\ train_log = <<>>
    /\ events = [p \in procs |-> <<>>]
    /\ evals = [p \in procs |-> <<>>]

\* One process of a run (the master or another one), any configuration
Init ==
    /\ config \in UNION { { Config(nd, ts, se, te, rs, "FID", sw) :
                               ts \in 0..(nd * MaxInner),
                               se \in Intervals(nd), te \in Intervals(nd),
                               rs \in BOOLEAN, sw \in Switches } : nd \in 1..MaxDevices }
    /\ loader_len \in 0..MaxBatches
    /\ get_inception_metrics = OneMetric
    /\ procs \in { {o} : o \in 0..Min(1, config.num_devices - 1) }
    /\ Entering

\* The master of a fresh run that evaluates at every step
InitEval ==
    /\ config \in UNION { { Config(nd, nd * MaxEvals, se, nd, FALSE, wb, Plain) :
                               se \in {nd, 2 * nd}, wb \in {"IS", "FID"} } :
                           nd \in 1..2 }
    /\ loader_len = MaxEvals
    /\ get_inception_metrics = SomeMetrics
    /\ procs = {0}
    /\ Entering

\* Every process of a fresh run
InitMulti ==
    /\ config \in UNION { { Config(nd, ts, se, te, FALSE, "FID", Plain) :
                               ts \in 0..(nd * 2),
                               se \in {nd, 2 * nd}, te \in {nd, 2 * nd} } :
                           nd \in 1..MaxProcs }
    /\ loader_len \in 1..2
    /\ get_inception_metrics = OneMetric
    /\ procs = 0..(config.num_devices - 1)
    /\ Entering

-----------------------------------------------------------------------------
(* Actions *)

\* lines 41-112: derived config, assertions, models, state dict
Prepare(p) ==
    /\ p \in procs /\ pc[p] = "start"
    /\ IF StartupAsserts(config)
       THEN /\ pc' = [pc EXCEPT ![p] = "load"]
            /\ state_dict' = [state_dict EXCEPT ![p] = <<InitStateDict>>]
       ELSE /\ pc' = [pc EXCEPT ![p] = "assert_failed"]
            /\ UNCHANGED state_dict
    /\ UNCHANGED <<config, loader_len, procs, get_inception_metrics, left, modes, ckpt, train_log,
                   events, evals>>

\* utils.load_weights: the state dict read back from the checkpoint storage
Restored == ckpt[1]

\* lines 115-120: utils.load_weights restores the saved state dict
LoadWeights(p) ==
    /\ p \in procs /\ pc[p] = "load"
    /\ IF config.resume
       THEN IF ckpt = <<>>
            THEN /\ pc' = [pc EXCEPT ![p] = "load_failed"]
                 /\ UNCHANGED state_dict
            ELSE /\ pc' = [pc EXCEPT ![p] = "while"]
                 /\ state_dict' = [state_dict EXCEPT ![p] = <<Restored>>]
       ELSE /\ pc' = [pc EXCEPT ![p] = "while"]
            /\ UNCHANGED state_dict
    /\ UNCHANGED <<config, loader_len, procs, get_inception_metrics, left, modes, ckpt, train_log,
                   events, evals>>

\* mutation: the outer loop test is off by one
WhileCond_Inclusive(p) == Itr(p) <= config.total_steps

\* line 175-176: the outer loop test and a fresh per-device loader
WhileCond(p) == Itr(p) < config.total_steps

\* mutation: the loader of the first pass is kept for the following passes
WhileCheck_NoReload(p) ==
    /\ p \in procs /\ pc[p] = "while"
    /\ IF WhileCond(p)
       THEN /\ pc' = [pc EXCEPT ![p] = "for"]
            /\ left' = [left EXCEPT ![p] = IF events[p] = <<>> THEN loader_len ELSE @]
       ELSE /\ pc' = [pc EXCEPT ![p] = "done"]
            /\ UNCHANGED left
    /\ UNCHANGED <<config, loader_len, procs, get_inception_metrics,
                   state_dict, modes, ckpt, train_log, events, evals>>

WhileCheck(p) ==
    /\ p \in procs /\ pc[p] = "while"
    /\ IF WhileCond(p)
       THEN /\ pc' = [pc EXCEPT ![p] = "for"]
            /\ left' = [left EXCEPT ![p] = loader_len]
       ELSE /\ pc' = [pc EXCEPT ![p] = "done"]
            /\ UNCHANGED left
    /\ UNCHANGED <<config, loader_len, procs, get_inception_metrics, state_dict, modes, ckpt,
                   train_log, events, evals>>

\* mutations: the counter advances by one, or twice per step
Advance_ByOne(i) == i + 1
Advance_Twice(i) == i + 2 * config.num_devices

\* line 182
Advance(i) == i + config.num_devices

\* mutation: the counter is advanced inside the master-only block of line 179
ForNext_MasterOnlyAdvance(p) ==
    /\ p \in procs /\ pc[p] = "for"
    /\ IF left[p] > 0
       THEN /\ left' = [left EXCEPT ![p] = left[p] - 1]
            /\ state_dict' = [state_dict EXCEPT ![p][1].itr =
                                IF is_master_ordinal(p) THEN Advance(Itr(p)) ELSE @]
            /\ modes' = [modes EXCEPT ![p] = TrainModes]
            /\ pc' = [pc EXCEPT ![p] = "train"]
       ELSE /\ pc' = [pc EXCEPT ![p] = "while"]
            /\ UNCHANGED <<left, state_dict, modes>>
    /\ UNCHANGED <<config, loader_len, procs, get_inception_metrics, ckpt,
                   train_log, events, evals>>

\* mutation: the models are not put back into training mode (lines 185-188)
ForNext_NoTrainMode(p) ==
    /\ p \in procs /\ pc[p] = "for"
    /\ IF left[p] > 0
       THEN /\ left' = [left EXCEPT ![p] = left[p] - 1]
            /\ state_dict' = [state_dict EXCEPT ![p][1].itr = Advance(Itr(p))]
            /\ pc' = [pc EXCEPT ![p] = "train"]
            /\ UNCHANGED modes
       ELSE /\ pc' = [pc EXCEPT ![p] = "while"]
            /\ UNCHANGED <<left, state_dict, modes>>
    /\ UNCHANGED <<config, loader_len, procs, get_inception_metrics, ckpt,
                   train_log, events, evals>>

\* lines 178-192: next batch, iteration counter, training mode;
\* an exhausted loader leaves the for loop (line 231) for line 175
ForNext(p) ==
    /\ p \in procs /\ pc[p] = "for"
    /\ IF left[p] > 0
       THEN /\ left' = [left EXCEPT ![p] = left[p] - 1]
            /\ state_dict' = [state_dict EXCEPT ![p][1].itr = Advance(Itr(p))]
            /\ modes' = [modes EXCEPT ![p] = TrainModes]
            /\ pc' = [pc EXCEPT ![p] = "train"]
       ELSE /\ pc' = [pc EXCEPT ![p] = "while"]
            /\ UNCHANGED <<left, state_dict, modes>>
    /\ UNCHANGED <<config, loader_len, procs, get_inception_metrics, ckpt, train_log, events, evals>>

\* mutation: an exception of the training step is swallowed
Train_Swallow(p) ==
    /\ p \in procs /\ pc[p] = "train"
    /\ \E ok \in BOOLEAN :
         /\ pc' = [pc EXCEPT ![p] = "log"]
         /\ events' = [events EXCEPT
                         ![p] = Append(@, Event(IF ok THEN "train" ELSE "train_raised",
                                                Itr(p)))]
    /\ UNCHANGED <<config, loader_len, procs, get_inception_metrics,
                   state_dict, left, modes, ckpt, train_log, evals>>

\* line 194: metrics = train(x, y); an exception propagates out of run
Train(p) ==
    /\ p \in procs /\ pc[p] = "train"
    /\ \E ok \in BOOLEAN :
         /\ pc' = [pc EXCEPT ![p] = IF ok THEN "log" ELSE "failed"]
         /\ events' = [events EXCEPT
                         ![p] = Append(@, Event(IF ok THEN "train" ELSE "train_raised",
                                                Itr(p)))]
    /\ UNCHANGED <<config, loader_len, procs, get_inception_metrics, state_dict, left, modes, ckpt,
                   train_log, evals>>

\* line 201
SVCond(p) ==
    /\ config.sv_log_interval > 0
    /\ Itr(p) % config.sv_log_interval = 0
    /\ is_master_ordinal(p)

\* mutation: the metrics record is written a second time at the SV interval
Log_Twice(p) ==
    /\ p \in procs /\ pc[p] = "log"
    /\ LET l1 == IF is_master_ordinal(p)
                 THEN <<Event("log", Itr(p))>> ELSE <<>>
           l2 == IF SVCond(p) THEN <<Event("log", Itr(p))>> ELSE <<>>
       IN  /\ train_log' = train_log \o l1 \o l2
           /\ events' = [events EXCEPT ![p] = @ \o l1 \o l2]
    /\ pc' = [pc EXCEPT ![p] = "save"]
    /\ UNCHANGED <<config, loader_len, procs, get_inception_metrics,
                   state_dict, left, modes, ckpt, evals>>

\* lines 196-206: the training log
Log(p) ==
    /\ p \in procs /\ pc[p] = "log"
    /\ LET l1 == IF is_master_ordinal(p)
                 THEN <<Event("log", Itr(p))>> ELSE <<>>
           l2 == IF SVCond(p) THEN <<Event("sv", Itr(p))>> ELSE <<>>
       IN  /\ train_log' = train_log \o l1 \o l2
           /\ events' = [events EXCEPT ![p] = @ \o l1 \o l2]
    /\ pc' = [pc EXCEPT ![p] = "save"]
    /\ UNCHANGED <<config, loader_len, procs, get_inception_metrics, state_dict, left, modes, ckpt,
                   evals>>

\* mutation: the save is triggered by the evaluation interval
SaveCond_TestEvery(p) == Itr(p) % config.test_every = 0

\* mutation: the save interval is applied twice over
SaveCond_Rare(p) == Itr(p) % (2 * config.save_every) = 0

\* line 209
SaveCond(p) == Itr(p) % config.save_every = 0

\* mutation: the EMA shadow is left in training mode at a save (lines 213-214)
SaveTrigger_NoEmaEval(p) ==
    /\ p \in procs /\ pc[p] = "save"
    /\ IF SaveCond(p)
       THEN /\ pc' = [pc EXCEPT ![p] = "saving"]
            /\ modes' = [modes EXCEPT
                 ![p].G = IF config.G_eval_mode THEN "eval" ELSE @]
            /\ events' = [events EXCEPT ![p] = Append(@, Event("save", Itr(p)))]
       ELSE /\ pc' = [pc EXCEPT ![p] = "test"]
            /\ UNCHANGED <<modes, events>>
    /\ UNCHANGED <<config, loader_len, procs, get_inception_metrics,
                   state_dict, left, ckpt, train_log, evals>>

\* lines 209-215 up to the call of train_fns.save_and_sample
SaveTrigger(p) ==
    /\ p \in procs /\ pc[p] = "save"
    /\ IF SaveCond(p)
       THEN /\ pc' = [pc EXCEPT ![p] = "saving"]
            /\ modes' = [modes EXCEPT
                 ![p].G = IF config.G_eval_mode THEN "eval" ELSE @,
                 ![p].G_ema = IF config.G_eval_mode /\ config.ema
                              THEN "eval" ELSE @]
            /\ events' = [events EXCEPT ![p] = Append(@, Event("save", Itr(p)))]
       ELSE /\ pc' = [pc EXCEPT ![p] = "test"]
            /\ UNCHANGED <<modes, events>>
    /\ UNCHANGED <<config, loader_len, procs, get_inception_metrics, state_dict, left, ckpt,
                   train_log, evals>>

\* train_fns.save_and_sample: the state dict goes to the checkpoint storage
SaveAndSample(p) ==
    /\ p \in procs /\ pc[p] = "saving"
    /\ ckpt' = state_dict[p]
    /\ pc' = [pc EXCEPT ![p] = "test"]
    /\ UNCHANGED <<config, loader_len, procs, get_inception_metrics, state_dict, left, modes,
                   train_log, events, evals>>

\* mutation: the evaluation is triggered by the save interval
TestCond_SaveEvery(p) == Itr(p) % config.save_every = 0

\* line 218
TestCond(p) == Itr(p) % config.test_every = 0

\* train_fns.test: a best snapshot when the tracked metric improves
Improves(sd, m) ==
    \/ config.which_best = "IS" /\ m.IS > sd.best_IS
    \/ config.which_best = "FID" /\ m.FID < sd.best_FID

\* train_fns.test: the bookmarks of the state dict after an evaluation
UpdateBest(sd, m) ==
    [sd EXCEPT !.best_IS = Max(@, m.IS), !.best_FID = Min(@, m.FID)]

\* lines 218-227: the evaluation; an exception propagates out of run
Test(p) ==
    /\ p \in procs /\ pc[p] = "test"
    /\ IF TestCond(p)
       THEN /\ modes' = [modes EXCEPT
                 ![p].G = IF config.G_eval_mode THEN "eval" ELSE @]
            /\ \/ \E m \in get_inception_metrics :
                    /\ evals' = [evals EXCEPT ![p] = Append(@,
                                   [itr |-> Itr(p), IS |-> m.IS, FID |-> m.FID,
                                    best |-> Improves(SD(p), m)])]
                    /\ state_dict' = [state_dict EXCEPT
                                        ![p] = <<UpdateBest(SD(p), m)>>]
                    /\ events' = [events EXCEPT
                                    ![p] = Append(@, Event("eval", Itr(p)))]
                    /\ pc' = [pc EXCEPT ![p] = "brk"]
               \/ /\ events' = [events EXCEPT
                                  ![p] = Append(@, Event("eval_raised", Itr(p)))]
                  /\ pc' = [pc EXCEPT ![p] = "failed"]
                  /\ UNCHANGED <<evals, state_dict>>
       ELSE /\ pc' = [pc EXCEPT ![p] = "brk"]
            /\ UNCHANGED <<modes, evals, state_dict, events>>
    /\ UNCHANGED <<config, loader_len, procs, get_inception_metrics, left, ckpt, train_log>>

\* mutation: the break check of line 229 never fires
BreakCond_Never(p) == FALSE

\* line 229
BreakCond(p) == Itr(p) >= config.total_steps

\* lines 229-231
BreakCheck(p) ==
    /\ p \in procs /\ pc[p] = "brk"
    /\ pc' = [pc EXCEPT ![p] = IF BreakCond(p) THEN "while" ELSE "for"]
    /\ UNCHANGED <<config, loader_len, procs, get_inception_metrics, state_dict, left, modes, ckpt,
                   train_log, events, evals>>

Ordinals == 0..(MaxDevices - 1)

Next ==
    \/ \E p \in Ordinals : Prepare(p)
    \/ \E p \in Ordinals : LoadWeights(p)
    \/ \E p \in Ordinals : WhileCheck(p)
    \/ \E p \in Ordinals : ForNext(p)
    \/ \E p \in Ordinals : Train(p)
    \/ \E p \in Ordinals : Log(p)
    \/ \E p \in Ordinals : SaveTrigger(p)
    \/ \E p \in Ordinals : SaveAndSample(p)
    \/ \E p \in Ordinals : Test(p)
    \/ \E p \in Ordinals : BreakCheck(p)

\* positions inside the training loop (lines 175-231)
LoopPcs == {"while", "for", "train", "log", "save", "saving", "test", "brk"}

Restarts ==
    LET p == CHOOSE q \in procs : TRUE
    IN  Cardinality({ i \in DOMAIN events[p] : events[p][i].kind = "restart" })

\* The run is terminated inside the loop (or has aborted) and run is invoked
\* again with resume set: every process starts over at line 41, the
\* checkpoint storage and the log files are what the terminated run left
Restart ==
    /\ \E p \in procs : pc[p] \in LoopPcs \cup {"failed"}
    /\ \A p \in procs : pc[p] \in LoopPcs \cup {"failed", "done"}
    /\ Restarts < MaxRestarts
    /\ config' = [config EXCEPT !.resume = TRUE]
    /\ pc' = [p \in procs |-> "start"]
    /\ events' = [p \in procs |-> Append(events[p], Event("restart", Itr(p)))]
    /\ state_dict' = [p \in procs |-> <<>>]
    /\ left' = [p \in procs |-> 0]
    /\ modes' = [p \in procs |-> TrainModes]
    /\ UNCHANGED <<loader_len, procs, ckpt, train_log, evals,
                   get_inception_metrics>>

NextResume == Next \/ Restart

\* The master of a fresh run that is long enough to pass several checkpoints
InitResume ==
    /\ config \in UNION { { Config(nd, ts, se, 2 * nd, FALSE, "FID", Plain) :
                               ts \in { k * nd : k \in 0..(2 * MaxMult) },
                               se \in { k * nd : k \in 1..MaxMult } } :
                           nd \in 1..2 }
    /\ loader_len \in 1..MaxBatches
    /\ get_inception_metrics = OneMetric
    /\ procs = {0}
    /\ Entering

\* The master of a fresh run with valid intervals, over loaders of any length
InitLive ==
    /\ config \in UNION { { Config(nd, ts, se, te, FALSE, "FID", Plain) :
                               ts \in 0..(nd * MaxInner),
                               se \in { k * nd : k \in 1..MaxMult },
                               te \in { k * nd : k \in 1..MaxMult } } :
                           nd \in 1..2 }
    /\ loader_len \in 0..MaxBatches
    /\ get_inception_metrics = OneMetric
    /\ procs = {0}
    /\ Entering

Spec == Init /\ [][Next]_vars
SpecEval == InitEval /\ [][Next]_vars
SpecMulti == InitMulti /\ [][Next]_vars
SpecResume == InitResume /\ [][NextResume]_vars

\* the process always takes its next step: run is one thread of control
SpecLive == InitLive /\ [][Next]_vars /\ WF_vars(Next)

-----------------------------------------------------------------------------
(* Observations used by the properties *)

Kinds(p, K) == { i \in DOMAIN events[p] : events[p][i].kind \in K }
TrainCount(p) == Cardinality(Kinds(p, {"train"}))
CeilDiv(a, b) == (a + b - 1) \div b
Created(p) == state_dict[p] # <<>>

-----------------------------------------------------------------------------
(* C1: whenever run terminates normally, the iteration counter equals
   total_steps. (Original statement; refuted.) *)
C1_EndsAtTotalSteps ==
    \A p \in procs : pc[p] = "done" => Itr(p) = config.total_steps

(* C1, amended: whenever run terminates normally the iteration counter is at
   least total_steps; if the run executed a training step it is below
   total_steps + num_devices, and if it executed none it is the value the run
   started with (0, or the restored one). *)
C1_EndsAtOrPastTotalSteps ==
    \A p \in procs : pc[p] = "done" =>
        /\ Itr(p) >= config.total_steps
        /\ TrainCount(p) > 0 => Itr(p) < config.total_steps + config.num_devices
        /\ TrainCount(p) = 0 =>
              Itr(p) = IF config.resume THEN ckpt[1].itr ELSE 0

C1_Witness ==
    \E p \in procs : /\ pc[p] = "done"
                      /\ TrainCount(p) > 0
                      /\ Itr(p) > config.total_steps

(* C2: a fresh run with total_steps > 0 ends with the iteration counter at the
   smallest multiple of num_devices that is >= total_steps, after exactly
   ceil(total_steps / num_devices) training steps; total_steps = 10 with
   num_devices = 4 ends at 12 after 3 steps. *)
C2_FreshRunRoundsUp ==
    \A p \in procs :
        (pc[p] = "done" /\ ~config.resume /\ config.total_steps > 0) =>
            LET n == CeilDiv(config.total_steps, config.num_devices) IN
            /\ Itr(p) = n * config.num_devices
            /\ Itr(p) >= config.total_steps
            /\ Itr(p) - config.num_devices < config.total_steps
            /\ TrainCount(p) = n
            /\ (config.total_steps = 10 /\ config.num_devices = 4) =>
                  (Itr(p) = 12 /\ TrainCount(p) = 3)

C2_Witness ==
    \E p \in procs : /\ pc[p] = "done" /\ ~config.resume
                      /\ config.total_steps = 10 /\ config.num_devices = 4
                      /\ Itr(p) = 12 /\ TrainCount(p) = 3

(* C3: inside the training loop the iteration counter never decreases, and
   every change to it is an increase by exactly num_devices, made by the step
   that fetches a batch (once per inner step) and by no other step. *)
C3_ItrAdvancesByNumDevices ==
    [][\A p \in procs :
          (Created(p) /\ pc[p] \in LoopPcs) =>
              \/ state_dict'[p][1].itr = Itr(p)
              \/ /\ state_dict'[p][1].itr = Itr(p) + config.num_devices
                 /\ pc[p] = "for" /\ pc'[p] = "train"]_vars

C3_Witness ==
    \E p \in procs : /\ pc[p] = "train"
                      /\ config.num_devices > 1
                      /\ TrainCount(p) >= 2
                      /\ Itr(p) = (TrainCount(p) + 1) * config.num_devices


(* Iteration values whose training step completed before the last restart,
   and those whose training step completed after it *)
LastRestart(p) ==
    LET R == Kinds(p, {"restart"})
    IN  IF R = {} THEN 0 ELSE CHOOSE i \in R : \A j \in R : j <= i
TrainedBefore(p) ==
    { events[p][i].itr : i \in { j \in Kinds(p, {"train"}) : j < LastRestart(p) } }
TrainedAfter(p) ==
    { events[p][i].itr : i \in { j \in Kinds(p, {"train"}) : j > LastRestart(p) } }
Redone(p) == TrainedAfter(p) \cap TrainedBefore(p)

(* C4: after a run is terminated inside the loop and run is invoked again
   with resume, the iteration values processed again cover at most one step
   (num_devices of iteration count). (Original statement; refuted.) *)
C4_RedoAtMostOneStep ==
    \A p \in procs :
        Cardinality(Redone(p)) * config.num_devices <= config.num_devices

(* C4, amended: the iteration values processed again after the restart cover
   at most save_every of iteration count, that is save_every / num_devices
   steps; this is one step only when save_every = num_devices. *)
C4_RedoAtMostSaveEvery ==
    \A p \in procs :
        Cardinality(Redone(p)) * config.num_devices <= config.save_every

C4_Witness ==
    \E p \in procs :
        /\ LastRestart(p) > 0
        /\ config.save_every > config.num_devices
        /\ Cardinality(Redone(p)) * config.num_devices = config.save_every


(* Bests recomputed from the evaluation history *)
MinOf(S) == CHOOSE m \in S : \A x \in S : m <= x
MaxOf(S) == CHOOSE m \in S : \A x \in S : m >= x
BestFIDBefore(p, i) == MinOf({999999} \cup { evals[p][j].FID : j \in 1..(i - 1) })
BestISBefore(p, i) == MaxOf({0} \cup { evals[p][j].IS : j \in 1..(i - 1) })
FIDs(p) == [i \in DOMAIN evals[p] |-> evals[p][i].FID]
BestWrites(p) == { i \in DOMAIN evals[p] : evals[p][i].best }

(* C5: a best snapshot is written at an evaluation cycle if and only if the
   cycle's tracked metric strictly improves on the stored best (best_FID
   starts at 999999, best_IS at 0), and the stored best then is that metric;
   for the FID sequence 10, 8, 9, 7 the cycles 0, 1 and 3 write one. *)
C5_BestIffStrictlyImproves ==
    \A p \in procs :
        /\ \A i \in DOMAIN evals[p] :
              evals[p][i].best <=>
                 IF config.which_best = "FID"
                 THEN evals[p][i].FID < BestFIDBefore(p, i)
                 ELSE evals[p][i].IS > BestISBefore(p, i)
        /\ Created(p) =>
              /\ SD(p).best_FID = BestFIDBefore(p, Len(evals[p]) + 1)
              /\ SD(p).best_IS = BestISBefore(p, Len(evals[p]) + 1)
        /\ (config.which_best = "FID" /\ FIDs(p) = <<10, 8, 9, 7>>) =>
              BestWrites(p) = {1, 2, 4}

C5_Witness ==
    \E p \in procs : /\ config.which_best = "FID"
                      /\ FIDs(p) = <<10, 8, 9, 7>>
                      /\ BestWrites(p) = {1, 2, 4}
                      /\ SD(p).best_FID = 7

(* C6: in a multi-device run only the master process invokes save_and_sample,
   so no two processes are inside a checkpoint write for the same iteration
   at the same time. (Refuted: every process invokes it.) *)
C6_OnlyMasterSaves ==
    /\ \A p \in procs : pc[p] = "saving" => is_master_ordinal(p)
    /\ \A p, q \in procs :
          (p # q /\ pc[p] = "saving" /\ pc[q] = "saving") => Itr(p) # Itr(q)

(* C7: within one run the metrics, checkpoint and evaluation events are
   ordered by iteration: no event follows one with a larger iteration tag,
   and each of the three kinds occurs at most once per iteration value. *)
Ordered3 == {"log", "save", "eval"}
C7_EventsOrderedByItr ==
    \A p \in procs :
        \A i, j \in Kinds(p, Ordered3) :
            i < j =>
               /\ events[p][i].itr <= events[p][j].itr
               /\ events[p][i].kind = events[p][j].kind =>
                     events[p][i].itr < events[p][j].itr

C7_Witness ==
    \E p \in procs :
        /\ Cardinality(Kinds(p, {"log"})) >= 2
        /\ Cardinality(Kinds(p, {"save"})) >= 2
        /\ Cardinality(Kinds(p, {"eval"})) >= 2

(* C8: an inner step invokes the evaluation if and only if the iteration
   counter it has advanced to is a multiple of test_every, and no iteration
   value gets two evaluations in a run. *)
Evaluated == {"eval", "eval_raised"}
C8_EvalIffTestEveryBoundary ==
    \A p \in procs :
        /\ pc[p] = "brk" =>
              ((\E i \in Kinds(p, Evaluated) : events[p][i].itr = Itr(p))
                  <=> Itr(p) % config.test_every = 0)
        /\ \A i \in Kinds(p, Evaluated) :
              events[p][i].itr % config.test_every = 0
        /\ \A i, j \in Kinds(p, Evaluated) :
              i # j => events[p][i].itr # events[p][j].itr

C8_Witness ==
    \E p \in procs :
        /\ pc[p] = "brk"
        /\ Cardinality(Kinds(p, {"eval"})) = 1
        /\ TrainCount(p) = 3
        /\ config.test_every # config.save_every

(* C9: when the evaluation fails during a cycle the run does not abort, the
   cycle is skipped and training goes on. (Refuted: the error leaves run.) *)
C9_EvalFailureDoesNotAbort ==
    \A p \in procs :
        Kinds(p, {"eval_raised"}) # {} => pc[p] # "failed"

(* C10: when the training step raises, run aborts and does not retry: for
   that step nothing is logged, saved or evaluated, no later training step
   is invoked, and the iteration counter keeps the advanced value. *)
C10_TrainErrorAborts ==
    \A p \in procs :
        \A i \in Kinds(p, {"train_raised"}) :
            /\ pc[p] = "failed"
            /\ i = Len(events[p])
            /\ Itr(p) = events[p][i].itr
            /\ \A j \in DOMAIN events[p] :
                  j # i => events[p][j].itr < events[p][i].itr
            /\ \A j \in DOMAIN train_log : train_log[j].itr # events[p][i].itr
            /\ ckpt # <<>> => ckpt[1].itr # events[p][i].itr

C10_Witness ==
    \E p \in procs :
        /\ pc[p] = "failed"
        /\ Kinds(p, {"train_raised"}) # {}
        /\ TrainCount(p) >= 1
        /\ Itr(p) % config.save_every = 0
        /\ Itr(p) % config.test_every = 0


(* The iteration values the training step was invoked with, in order: the
   completed and the failed invocations, and the one in progress *)
RECURSIVE TagsFrom(_, _)
TagsFrom(p, i) ==
    IF i > Len(events[p]) THEN <<>>
    ELSE (IF events[p][i].kind \in {"train", "train_raised"}
          THEN <<events[p][i].itr>> ELSE <<>>) \o TagsFrom(p, i + 1)
TrainTags(p) ==
    TagsFrom(p, 1) \o (IF Created(p) /\ pc[p] = "train" THEN <<Itr(p)>> ELSE <<>>)

(* The iteration values a run can start with: 0, or a restored one *)
StartItrs ==
    IF config.resume THEN { d.itr : d \in StoredDicts(config) } ELSE {0}

(* C11: every invocation of the training step comes right after one advance
   of the counter by num_devices: the k-th training step of a run started at
   iteration s runs with iteration s + k * num_devices. *)
C11_TrainRunsAtAdvancedItr ==
    \A p \in procs :
        LET t == TrainTags(p) IN
        t # <<>> =>
            /\ t[1] - config.num_devices \in StartItrs
            /\ \A k \in DOMAIN t : t[k] = (t[1] - config.num_devices)
                                            + k * config.num_devices

C11_Witness ==
    \E p \in procs : /\ ~is_master_ordinal(p)
                      /\ pc[p] = "train"
                      /\ Len(TrainTags(p)) = 3

(* C12: at every invocation of the training step the generator, the
   discriminator and (with EMA) the EMA shadow are in training mode, also in
   the step after one that switched G or the shadow to evaluation mode. *)
C12_TrainModeAtTrain ==
    \A p \in procs :
        pc[p] = "train" =>
            /\ modes[p].G = "train"
            /\ modes[p].D = "train"
            /\ config.ema => modes[p].G_ema = "train"

C12_Witness ==
    \E p \in procs :
        /\ pc[p] = "train"
        /\ config.G_eval_mode /\ config.ema
        /\ \E i \in Kinds(p, {"save"}) :
              events[p][i].itr = Itr(p) - config.num_devices
        /\ \E i \in Kinds(p, {"eval"}) :
              events[p][i].itr = Itr(p) - config.num_devices

(* C13: the training step is never invoked once the counter has reached
   total_steps: a step that brings it to total_steps or beyond is the last
   one even when the loader has batches left, and a run restored at an
   iteration >= total_steps performs no training step. *)
C13_NoTrainPastTotalSteps ==
    \A p \in procs :
        /\ (Created(p) /\ pc[p] = "for") => Itr(p) < config.total_steps
        /\ \A k \in DOMAIN TrainTags(p) :
              TrainTags(p)[k] - config.num_devices < config.total_steps
        /\ (Created(p) /\ config.resume /\ Kinds(p, {"save"}) = {}
              /\ ckpt # <<>> /\ ckpt[1].itr >= config.total_steps
              /\ pc[p] \in LoopPcs \cup {"done", "failed"})
             => TrainTags(p) = <<>>

C13_Witness ==
    \E p \in procs : /\ pc[p] = "done"
                      /\ left[p] > 0
                      /\ TrainCount(p) >= 1
                      /\ Itr(p) > config.total_steps


(* Positions of the events of process p that carry iteration tag v *)
At(p, K, v) == { i \in Kinds(p, K) : events[p][i].itr = v }

(* C14: an inner step invokes save_and_sample if and only if the counter it
   has advanced to is a multiple of save_every, and within the step the save
   comes after the training step and the metrics record and before the
   evaluation and the break check. *)
C14_SaveIffSaveEveryBoundary ==
    \A p \in procs :
        /\ (Created(p) /\ pc[p] \in {"saving", "test", "brk"}) =>
              (At(p, {"save"}, Itr(p)) # {} <=> Itr(p) % config.save_every = 0)
        /\ (Created(p) /\ pc[p] \in {"train", "log", "save"}) =>
              At(p, {"save"}, Itr(p)) = {}
        /\ \A i \in Kinds(p, {"save"}) :
              LET v == events[p][i].itr IN
              /\ v % config.save_every = 0
              /\ \E j \in At(p, {"train"}, v) : j < i
              /\ is_master_ordinal(p) => \E j \in At(p, {"log"}, v) : j < i
              /\ \A j \in At(p, {"log", "sv", "train"}, v) : j < i
              /\ \A j \in At(p, {"eval", "eval_raised"}, v) : j > i
        /\ pc[p] = "saving" => At(p, {"eval", "eval_raised"}, Itr(p)) = {}

C14_Witness ==
    \E p \in procs :
        /\ is_master_ordinal(p)
        /\ pc[p] = "brk"
        /\ config.save_every # config.test_every
        /\ At(p, {"save"}, Itr(p)) # {}
        /\ At(p, {"eval"}, Itr(p)) # {}
        /\ At(p, {"sv"}, Itr(p)) # {}

(* The metrics records of the training log, and the iteration values of the
   training steps the master has completed and logged *)
RECURSIVE LogTags(_)
LogTags(i) ==
    IF i > Len(train_log) THEN <<>>
    ELSE (IF train_log[i].kind = "log" THEN <<train_log[i].itr>> ELSE <<>>)
         \o LogTags(i + 1)
RECURSIVE DoneTags(_, _)
DoneTags(p, i) ==
    IF i > Len(events[p]) THEN <<>>
    ELSE (IF events[p][i].kind = "train" /\ ~(i = Len(events[p]) /\ pc[p] = "log")
          THEN <<events[p][i].itr>> ELSE <<>>) \o DoneTags(p, i + 1)

(* C15: in a multi-device run the training log holds exactly one metrics
   record per completed training step of the master, tagged with that
   step's advanced iteration, and none from any other process. *)
C15_OnlyMasterLogs ==
    /\ LogTags(1) = DoneTags(0, 1)
    /\ \A p \in procs : ~(p = 0) => Kinds(p, {"log", "sv"}) = {}

C15_Witness ==
    /\ config.num_devices = 2
    /\ Len(LogTags(1)) = 2
    /\ TrainCount(1) = 2

(* C16: with G_eval_mode the generator and (with EMA) the EMA shadow are in
   evaluation mode at every invocation of save_and_sample and at every
   invocation of the evaluation; the discriminator is never in evaluation
   mode. (Original statement; refuted for the shadow at an evaluation.) *)
C16_EvalModeAtSaveAndTest ==
    \A p \in procs :
        /\ modes[p].D = "train"
        /\ (config.G_eval_mode /\ pc[p] = "saving") =>
              /\ modes[p].G = "eval"
              /\ config.ema => modes[p].G_ema = "eval"
        /\ (config.G_eval_mode /\ Created(p) /\ pc[p] \in {"brk", "failed"}
              /\ At(p, {"eval", "eval_raised"}, Itr(p)) # {}) =>
              /\ modes[p].G = "eval"
              /\ config.ema => modes[p].G_ema = "eval"

(* C16, amended: with G_eval_mode the generator is in evaluation mode at
   every invocation of save_and_sample and of the evaluation; the EMA shadow
   (with EMA) is in evaluation mode at every invocation of save_and_sample,
   and at an invocation of the evaluation exactly when the same step also
   saved; the discriminator is never in evaluation mode. *)
C16_EvalModeShadowOnlyAtSave ==
    \A p \in procs :
        /\ modes[p].D = "train"
        /\ (config.G_eval_mode /\ pc[p] = "saving") =>
              /\ modes[p].G = "eval"
              /\ config.ema => modes[p].G_ema = "eval"
        /\ (config.G_eval_mode /\ Created(p) /\ pc[p] \in {"brk", "failed"}
              /\ At(p, {"eval", "eval_raised"}, Itr(p)) # {}) =>
              /\ modes[p].G = "eval"
              /\ config.ema =>
                    (modes[p].G_ema = "eval" <=> Itr(p) % config.save_every = 0)

C16_Witness ==
    \E p \in procs :
        /\ config.G_eval_mode /\ config.ema
        /\ pc[p] = "brk"
        /\ At(p, {"eval"}, Itr(p)) # {}
        /\ At(p, {"save"}, Itr(p)) = {}
        /\ modes[p].G = "eval" /\ modes[p].G_ema = "train"


(* The save stage, or the evaluation stage, of the step that advanced the
   counter to its present value is behind process p *)
SaveStagePassed(p) == pc[p] \in {"saving", "test", "brk", "for", "while", "done"}
TestStagePassed(p) == pc[p] \in {"brk", "for", "while", "done"}

(* C17: in a fresh run that passes the startup assertions no interval
   boundary is skipped: for every multiple m of save_every with
   0 < m <= iteration, save_and_sample is invoked exactly once at m, and
   likewise for test_every and the evaluation. *)
C17_NoBoundarySkipped ==
    \A p \in procs :
        (Created(p) /\ ~config.resume) =>
            \A m \in 1..Itr(p) :
                /\ Cardinality(At(p, {"save"}, m)) <= 1
                /\ Cardinality(At(p, {"eval", "eval_raised"}, m)) <= 1
                /\ (m % config.save_every = 0
                      /\ (m < Itr(p) \/ SaveStagePassed(p)))
                     => Cardinality(At(p, {"save"}, m)) = 1
                /\ (m % config.test_every = 0
                      /\ (m < Itr(p) \/ TestStagePassed(p)))
                     => Cardinality(At(p, {"eval", "eval_raised"}, m)) = 1

C17_Witness ==
    \E p \in procs :
        /\ pc[p] = "done" /\ ~config.resume
        /\ config.num_devices >= 2
        /\ Cardinality(Kinds(p, {"save"})) = 3
        /\ Cardinality(Kinds(p, {"eval"})) = 1

(* The save events of p whose save_and_sample has returned *)
SavesDone(p) ==
    { i \in Kinds(p, {"save"}) : ~(pc[p] = "saving" /\ events[p][i].itr = Itr(p)) }

(* C18: at every invocation of save_and_sample and of the evaluation in a
   run started at iteration s the counter is s + num_devices * (training
   steps that have returned), so a persisted state dictionary never holds an
   iteration whose training step has not completed; while a training step
   runs the counter is ahead of the completed steps by exactly num_devices. *)
C18_ItrCountsCompletedSteps ==
    \A p \in procs :
        (Created(p) /\ TrainTags(p) # <<>>) =>
            LET s == TrainTags(p)[1] - config.num_devices
                n == TrainCount(p)
            IN  /\ s \in StartItrs
                /\ pc[p] \in {"log", "save", "saving", "test", "brk", "for",
                               "while", "done"} =>
                      Itr(p) = s + config.num_devices * n
                /\ (pc[p] = "failed" /\ Kinds(p, {"eval_raised"}) # {}) =>
                      Itr(p) = s + config.num_devices * n
                /\ (pc[p] = "train" \/ Kinds(p, {"train_raised"}) # {}) =>
                      Itr(p) = s + config.num_devices * (n + 1)
                /\ \A i \in Kinds(p, {"save", "eval", "eval_raised"}) :
                      At(p, {"train"}, events[p][i].itr) # {}
                /\ SavesDone(p) # {} =>
                      /\ ckpt # <<>>
                      /\ At(p, {"train"}, ckpt[1].itr) # {}
                      /\ ckpt[1].itr <= s + config.num_devices * n

C18_Witness ==
    \E p \in procs : /\ pc[p] = "train"
                      /\ config.resume
                      /\ TrainCount(p) = 1
                      /\ SavesDone(p) # {}
                      /\ ckpt[1].itr = Itr(p) - config.num_devices

(* C19: the outer loop makes a new pass over the loader whenever a pass ends
   with the counter below total_steps; when every pass yields a batch the
   run eventually ends, and when a pass yields none the outer loop spins
   forever with the counter unchanged. *)
Ended == \A p \in procs : pc[p] \in {"done", "failed"}
C19_EndsUnlessLoaderEmpty ==
    /\ (loader_len >= 1) => <>Ended
    /\ (loader_len = 0 /\ config.total_steps > 0) =>
          [](\A p \in procs : pc[p] # "done" /\ events[p] = <<>>
                               /\ (Created(p) => Itr(p) = 0))

C19_Witness ==
    \E p \in procs : /\ pc[p] = "done"
                      /\ loader_len >= 1
                      /\ TrainCount(p) > loader_len

(* C20: when save_every or test_every is no multiple of num_devices, run
   fails on the assertion before training starts: the state dictionary is
   not created, nothing is loaded, and no training step, advance of the
   counter, checkpoint save or evaluation ever happens. *)
C20_BadIntervalFailsAtStart ==
    \A p \in procs :
        (config.save_every % config.num_devices # 0
           \/ config.test_every % config.num_devices # 0) =>
            /\ pc[p] \in {"start", "assert_failed"}
            /\ state_dict[p] = <<>>
            /\ events[p] = <<>>
            /\ evals[p] = <<>>
            /\ train_log = <<>>
            /\ modes[p] = TrainModes
            /\ ckpt \in {<<>>} \cup { <<d>> : d \in StoredDicts(config) }

C20_Witness ==
    \E p \in procs : /\ pc[p] = "assert_failed"
                      /\ config.save_every % config.num_devices = 0
                      /\ config.test_every % config.num_devices # 0
                      /\ config.resume /\ ckpt # <<>>

====
